---- MODULE Spec2Model ----
(***************************************************************************)
(* A model of the Runn API client (src/runn_reports.py: RunnClient.request *)
(* and the generator RunnClient._paginate), of the billable-hours report   *)
(* (build_billable_hours_report) and of the billable_hours tool, the       *)
(* query tools and runn_request (src/mcp_runn_server.py).                  *)
(*                                                                         *)
(* Python mappings (dict) are functions whose DOMAIN is the set of keys    *)
(* present; None and JSON null are the string Null; a path is a sequence   *)
(* of one-character strings, so that str.startswith is computed.           *)
(***************************************************************************)
EXTENDS Integers, Sequences, FiniteSets, TLC

VARIABLES
    wire,        \* round trips of the operation in progress: <<[method, url, params, json]>>
    responses,   \* the upstream's answer to each round trip of wire, in order
    lastCall,    \* the last direct call of RunnClient.request and its outcome
    path,        \* paginate(): the path argument
    callerParams,\* paginate(): the params argument (None or a dict)
    limit,       \* paginate(): the limit argument
    pc,          \* the generator's position
    gparams,     \* the generator's local params (after setdefault)
    cursor,      \* the generator's local cursor
    payload,     \* the generator's local payload (the page being iterated)
    idx,         \* how many items of payload["values"] the for loop has yielded
    pulls,       \* how many times the consumer called next() on the generator
    delivered,   \* the items the consumer received, in order
    error,       \* the exception the generator raised into the consumer, or "none"
    mode,        \* billable_hours: which input domain the upstream draws actuals from
    args,        \* billable_hours: the arguments start, end, project_id, person_id
    rpc,         \* billable_hours: the position in build_billable_hours_report
    window,      \* the parsed start and end dates
    lookups,     \* people and projects: id -> display name
    apage,       \* the /actuals page being iterated: its nextCursor
    npages,      \* how many /actuals pages were requested
    streamed,    \* the actuals the loop has taken from the stream, in order
    buckets,     \* the dict buckets, as its items in insertion order
    rows,        \* what build_billable_hours_report returned
    result,      \* what billable_hours returned
    rerror,      \* the exception billable_hours raised, or "none"
    tool,        \* the query tool or runn_request that was called, or "none"
    targs,       \* its arguments
    tpc,         \* its position: called, people (scan), target (scan), done, failed
    tcursor,     \* the cursor of the scan in progress
    titems,      \* the items the scan in progress has collected
    tpeople,     \* the drained /people scan of a team tool
    tresult,     \* what the tool returned
    terror       \* the exception the tool raised, or "none"

pagVars == <<path, callerParams, limit, pc, gparams, cursor, payload, idx, pulls, delivered, error>>
repVars == <<mode, args, rpc, window, lookups, apage, npages, streamed, buckets, rows, result,
            rerror>>
toolVars == <<tool, targs, tpc, tcursor, titems, tpeople, tresult, terror>>
vars == <<wire, responses, lastCall, pagVars, repVars, toolVars>>

-----------------------------------------------------------------------------
(* Bounds of the model *)

\* Fetch is disabled once this many round trips were made by one paginate().
MaxRequests == 3

-----------------------------------------------------------------------------
(* Values *)

Null == "<None>"
EmptyDict == [k \in {} |-> 0]
NoneVal == [none |-> TRUE]      \* an argument that was not given (None)

\* dict.get(key, default)
Get(d, k, default) == IF k \in DOMAIN d THEN d[k] ELSE default

\* d[key] = value
Put(d, k, v) == [x \in (DOMAIN d) \cup {k} |-> IF x = k THEN v ELSE d[x]]

\* d.setdefault(key, value)
SetDefault(d, k, v) == IF k \in DOMAIN d THEN d ELSE Put(d, k, v)

\* dict(params or {})
DictOrEmpty(p) == IF p = NoneVal \/ DOMAIN p = {} THEN EmptyDict ELSE p

\* Python truthiness of a cursor value (a string or None)
Truthy(c) == c # Null /\ c # ""

DefaultLimit == 200

-----------------------------------------------------------------------------
(* The upstream: what it may answer to one round trip *)

NonEmptyCursors == {"c1", "c2"}
ValueSeqs == {<<>>, <<"a">>, <<"b", "a">>}
ValuesParts == {EmptyDict} \cup {("values" :> v) : v \in ValueSeqs}
CursorParts == {EmptyDict} \cup {("nextCursor" :> c) : c \in {Null, ""} \cup NonEmptyCursors}
JsonBodies == {a @@ b : a \in ValuesParts, b \in CursorParts}

JsonType == "application/json"
JsonCharsetType == "application/json; charset=utf-8"
TextType == "text/plain"

\* "application/json" in content_type, on the content types of the model
ContainsApplicationJson(ct) == ct \in {JsonType, JsonCharsetType}

\* The text of a response is JsonText when it is the serialisation of its body;
\* any other text is no JSON document, and resp.json() raises on it.
JsonText == "json"
ParsesAsJson(resp) == resp.text = JsonText

\* 200 responses carrying a JSON page
PageResponses == {[status |-> 200, ctype |-> JsonType, body |-> b, text |-> JsonText] : b \in JsonBodies}

\* every other kind of response: no content, not JSON, redirection class, errors
OtherResponses ==
    { [status |-> 204, ctype |-> JsonType, body |-> EmptyDict, text |-> ""],
      [status |-> 204, ctype |-> TextType, body |-> EmptyDict, text |-> ""],
      [status |-> 200, ctype |-> TextType, body |-> EmptyDict, text |-> "raw"],
      [status |-> 200, ctype |-> JsonType, body |-> EmptyDict, text |-> ""],
      [status |-> 304, ctype |-> TextType, body |-> EmptyDict, text |-> ""],
      [status |-> 404, ctype |-> JsonType, body |-> EmptyDict, text |-> "not found"],
      [status |-> 500, ctype |-> TextType, body |-> EmptyDict, text |-> "oops"] }

Responses == PageResponses \cup OtherResponses

-----------------------------------------------------------------------------
(* RunnClient.request *)

BaseUrl == <<"https://api.runn.io">>

HttpPrefix == <<"h", "t", "t", "p", ":", "/", "/">>
HttpsPrefix == <<"h", "t", "t", "p", "s", ":", "/", "/">>

\* str.startswith
StartsWith(s, prefix) ==
    /\ Len(s) >= Len(prefix)
    /\ SubSeq(s, 1, Len(prefix)) = prefix

Methods == {"GET", "get", "post"}

\* str.upper() on the methods of the model
Upper(m) ==
    CASE m = "get" -> "GET"
      [] m = "post" -> "POST"
      [] OTHER -> m

\* _normalize_path: raises ValueError on an absolute URL, else adds the leading slash
NormalizePathLoose(p) ==
    IF StartsWith(p, HttpsPrefix)
    THEN [raised |-> TRUE, path |-> <<>>]
    ELSE [raised |-> FALSE, path |-> IF StartsWith(p, <<"/">>) THEN p ELSE <<"/">> \o p]

NormalizePath(p) ==
    IF StartsWith(p, HttpPrefix) \/ StartsWith(p, HttpsPrefix)
    THEN [raised |-> TRUE, path |-> <<>>]
    ELSE [raised |-> FALSE, path |-> IF StartsWith(p, <<"/">>) THEN p ELSE <<"/">> \o p]

\* requests.Response.raise_for_status: HTTPError for 4xx and 5xx, nothing otherwise
RaisesForStatus(status) == status >= 400 /\ status < 600

\* what request returns for a response that did not raise
RequestReturnJsonFirst(resp) ==
    IF ContainsApplicationJson(resp.ctype)
    THEN resp.body
    ELSE IF resp.status = 204
         THEN ("status_code" :> resp.status)
         ELSE ("status_code" :> resp.status) @@ ("text" :> resp.text)

RequestReturn(resp) ==
    IF resp.status = 204
    THEN ("status_code" :> resp.status)
    ELSE IF ContainsApplicationJson(resp.ctype)
         THEN resp.body
         ELSE ("status_code" :> resp.status) @@ ("text" :> resp.text)

\* One call of request(method, path, params, json_body) answered by resp:
\* the round trips it makes and how it ends.
Request(method, p, prm, jb, resp) ==
    LET m == Upper(method)
        np == NormalizePath(p)
        sent == [method |-> m, url |-> BaseUrl \o np.path, params |-> prm, json |-> jb]
    IN  IF np.raised
        THEN [trips |-> <<>>, kind |-> "InvalidArgument", status |-> 0, value |-> EmptyDict]
        ELSE IF RaisesForStatus(resp.status)
        THEN [trips |-> <<sent>>, kind |-> "HttpError", status |-> resp.status, value |-> EmptyDict]
        ELSE IF /\ resp.status # 204
                /\ ContainsApplicationJson(resp.ctype)
                /\ ~ParsesAsJson(resp)
             THEN [trips |-> <<sent>>, kind |-> "JSONDecodeError", status |-> resp.status,
                   value |-> EmptyDict]
             ELSE [trips |-> <<sent>>, kind |-> "return", status |-> resp.status,
                   value |-> RequestReturn(resp)]

RelSlash == <<"/", "a">>
RelBare == <<"a">>
AbsHttp == <<"h", "t", "t", "p", ":", "/", "/", "x">>
AbsHttps == <<"h", "t", "t", "p", "s", ":", "/", "/", "x">>
Paths ==
    { RelSlash, RelBare, <<>>, <<"/", "/", "a">>, AbsHttp, AbsHttps,
      <<"h", "t", "t", "p", ":", "/", "x">>, <<"H", "T", "T", "P", ":", "/", "/", "x">>,
      <<"h", "t", "t", "p">> }

NoCall == [made |-> FALSE]

\* the answers a direct call is tried against: one JSON page and every other kind
DirectResponses ==
    OtherResponses \cup
    {[status |-> 200, ctype |-> JsonType, text |-> JsonText,
      body |-> ("values" :> <<"a">>) @@ ("nextCursor" :> "c1")],
     [status |-> 201, ctype |-> JsonCharsetType, text |-> JsonText, body |-> ("id" :> "a")]}

\* A caller invokes client.request directly; the upstream answers resp.
RequestCall ==
    \E method \in Methods, p \in Paths, prm \in {NoneVal, ("q" :> "x")},
       jb \in {NoneVal, ("k" :> "v")}, resp \in DirectResponses :
        LET out == Request(method, p, prm, jb, resp) IN
        /\ wire' = out.trips
        /\ responses' = IF out.trips = <<>> THEN <<>> ELSE <<resp>>
        /\ lastCall' = [made |-> TRUE, method |-> method, path |-> p, params |-> prm,
                        json |-> jb, resp |-> resp, kind |-> out.kind,
                        status |-> out.status, value |-> out.value]
        /\ UNCHANGED <<pagVars, repVars, toolVars>>

-----------------------------------------------------------------------------
(* RunnClient._paginate / paginate: a generator and its consumer *)

\* The consumer calls next(): the generator runs from where it was suspended.
\* The first next() runs the code before the loop.
Pull ==
    /\ pc \in {"created", "suspended"}
    /\ pulls' = pulls + 1
    /\ IF pc = "created"
       THEN /\ cursor' = Null
            /\ gparams' = SetDefault(DictOrEmpty(callerParams), "limit", limit)
            /\ pc' = "fetch"
       ELSE /\ pc' = "loop"
            /\ UNCHANGED <<cursor, gparams>>
    /\ UNCHANGED <<wire, responses, lastCall, path, callerParams, limit, payload, idx,
                   delivered, error, repVars, toolVars>>

\* the top of the while loop may run
CanFetchEager == pc \in {"created", "fetch"}

CanFetch == pc = "fetch"

\* page_params of one iteration
PageParamsNoCursor(prm, c) == prm

PageParams(prm, c) == IF Truthy(c) THEN Put(prm, "cursor", c) ELSE prm

\* The generator requests one page; the upstream answers any response.
Fetch ==
    /\ CanFetch
    /\ Len(wire) < MaxRequests
    /\ \E resp \in Responses :
        LET out == Request("GET", path, PageParams(gparams, cursor), NoneVal, resp) IN
        /\ wire' = wire \o out.trips
        /\ responses' = IF out.trips = <<>> THEN responses ELSE Append(responses, resp)
        /\ IF out.kind = "return"
           THEN /\ payload' = out.value
                /\ idx' = 0
                /\ pc' = "loop"
                /\ error' = error
           ELSE /\ pc' = "raised"
                /\ error' = out.kind
                /\ UNCHANGED <<payload, idx>>
    /\ UNCHANGED <<lastCall, path, callerParams, limit, gparams, cursor, pulls, delivered,
                   repVars, toolVars>>

\* payload.get("values", [])
PageValues(pl) == Get(pl, "values", <<>>)

\* The for loop yields the next item of the page and the generator suspends.
Yield ==
    /\ pc = "loop"
    /\ idx < Len(PageValues(payload))
    /\ delivered' = Append(delivered, PageValues(payload)[idx + 1])
    /\ idx' = idx + 1
    /\ pc' = "suspended"
    /\ UNCHANGED <<wire, responses, lastCall, path, callerParams, limit, gparams, cursor,
                   payload, pulls, error, repVars, toolVars>>

\* where the generator goes once a page's items are exhausted
AfterPageStopOnEmpty(pl) ==
    IF Truthy(Get(pl, "nextCursor", Null)) /\ PageValues(pl) # <<>> THEN "fetch" ELSE "done"

AfterPage(pl) == IF Truthy(Get(pl, "nextCursor", Null)) THEN "fetch" ELSE "done"

\* The for loop is exhausted: read nextCursor, leave the while loop or go round.
EndPage ==
    /\ pc = "loop"
    /\ idx = Len(PageValues(payload))
    /\ cursor' = Get(payload, "nextCursor", Null)
    /\ pc' = AfterPage(payload)
    /\ UNCHANGED <<wire, responses, lastCall, path, callerParams, limit, gparams, payload,
                   idx, pulls, delivered, error, repVars, toolVars>>

\* billable_hours is not in use
ReportIdle ==
    /\ mode = "none"
    /\ args = NoneVal
    /\ rpc = "none"
    /\ window = NoneVal
    /\ lookups = NoneVal
    /\ apage = NoneVal
    /\ npages = 0
    /\ streamed = <<>>
    /\ buckets = <<>>
    /\ rows = <<>>
    /\ result = <<>>
    /\ rerror = "none"

\* no tool of the server is in use
ToolsIdle ==
    /\ tool = "none"
    /\ targs = NoneVal
    /\ tpc = "none"
    /\ tcursor = Null
    /\ titems = <<>>
    /\ tpeople = <<>>
    /\ tresult = <<>>
    /\ terror = "none"

\* no generator of paginate() is in use
PaginateIdle ==
    /\ path = RelBare
    /\ callerParams = NoneVal
    /\ limit = DefaultLimit
    /\ pc = "none"
    /\ gparams = EmptyDict
    /\ cursor = Null
    /\ payload = EmptyDict
    /\ idx = 0
    /\ pulls = 0
    /\ delivered = <<>>
    /\ error = "none"

CallerParamsSet ==
    { NoneVal, ("q" :> "x"), ("q" :> "x") @@ ("limit" :> 50), ("cursor" :> "c9") }

\* paginate(path, params, limit) was called: the generator object exists, none of its code ran.
InitPaginate ==
    /\ wire = <<>>
    /\ responses = <<>>
    /\ lastCall = NoCall
    /\ path \in {RelBare, AbsHttp}
    /\ callerParams \in CallerParamsSet
    /\ limit = DefaultLimit
    /\ pc = "created"
    /\ gparams = EmptyDict
    /\ cursor = Null
    /\ payload = EmptyDict
    /\ idx = 0
    /\ pulls = 0
    /\ delivered = <<>>
    /\ error = "none"
    /\ ReportIdle
    /\ ToolsIdle

NextPaginate == Pull \/ Fetch \/ Yield \/ EndPage

Spec == InitPaginate /\ [][NextPaginate]_vars

\* No generator: only direct calls of request.
InitRequest ==
    /\ wire = <<>>
    /\ responses = <<>>
    /\ lastCall = NoCall
    /\ PaginateIdle
    /\ ReportIdle
    /\ ToolsIdle

NextRequest == RequestCall

SpecRequest == InitRequest /\ [][NextRequest]_vars

-----------------------------------------------------------------------------
(* Dates: datetime.date, date.fromisoformat, date.isoformat *)

\* A date string is held as the form it is written in and the numbers it spells:
\* "iso" is YYYY-MM-DD, "dmy" is DD/MM/YYYY, "empty" is the empty string.
DateStr(y, m, d) == [form |-> "iso", y |-> y, m |-> m, d |-> d]
Jan31 == DateStr(2025, 1, 31)
Feb01 == DateStr(2025, 2, 1)
Feb30 == DateStr(2025, 2, 30)
SlashDate == [form |-> "dmy", y |-> 2025, m |-> 2, d |-> 1]
EmptyStr == [form |-> "empty", y |-> 0, m |-> 0, d |-> 0]

IsLeap(y) == (y % 4 = 0 /\ y % 100 # 0) \/ y % 400 = 0

DaysInMonth(y, m) ==
    IF m = 2 THEN (IF IsLeap(y) THEN 29 ELSE 28)
    ELSE IF m \in {4, 6, 9, 11} THEN 30 ELSE 31

\* dt.date.fromisoformat: a date, or ValueError
FromIsoFormat(s) ==
    IF s.form = "iso" /\ s.y \in 1..9999 /\ s.m \in 1..12 /\ s.d \in 1..DaysInMonth(s.y, s.m)
    THEN [ok |-> TRUE, date |-> [y |-> s.y, m |-> s.m, d |-> s.d]]
    ELSE [ok |-> FALSE, date |-> NoneVal]

\* parse_date: None for None and for the empty string
ParseDate(v) ==
    IF v = NoneVal \/ v.form = "empty"
    THEN [ok |-> TRUE, date |-> NoneVal]
    ELSE FromIsoFormat(v)

\* date < date
DateLt(a, b) ==
    \/ a.y < b.y
    \/ a.y = b.y /\ a.m < b.m
    \/ a.y = b.y /\ a.m = b.m /\ a.d < b.d

\* date.replace(day=1)
FirstOfMonth(d) == [d EXCEPT !.d = 1]

\* date.isoformat()
IsoFormat(d) == DateStr(d.y, d.m, d.d)

-----------------------------------------------------------------------------
(* build_billable_hours_report and the billable_hours tool *)

(***************************************************************************)
(* Numbers.  billableMinutes is held as a count of half minutes (7.5       *)
(* minutes is 15) and hours as a count of 1/600 hour, in which a half      *)
(* minute (5) and a hundredth of an hour (6) are both whole.  The actuals  *)
(* of the model have billableMinutes that are multiples of 7.5, so their   *)
(* hours are multiples of 1/8: on these the code's float arithmetic        *)
(* (minutes / 60.0, +=) is exact and round(hours, 2) meets exact ties.     *)
(* billable_hours is held as a count of hundredths.                        *)
(***************************************************************************)

\* the most actuals the upstream streams to one report
MaxActuals == 3
\* the most /actuals pages the upstream answers one report with
MaxPages == 2

\* minutes / 60.0
MinutesToHours(hm) == 5 * hm

\* round(hours, 2) for hours >= 0
Round2HalfUp(h) == IF h % 6 < 3 THEN h \div 6 ELSE (h \div 6) + 1

Round2(h) ==
    LET q == h \div 6
        r == h % 6
    IN  IF r < 3 THEN q
        ELSE IF r > 3 THEN q + 1
        ELSE IF q % 2 = 0 THEN q ELSE q + 1

\* actual.get("billableMinutes") or 0
MinutesOrZero(a) == IF "billableMinutes" \in DOMAIN a THEN a["billableMinutes"] ELSE 0

\* if minutes <= 0: continue
SkipMinutesZeroKept(minutes) == minutes < 0

SkipMinutes(minutes) == minutes <= 0

\* the two window tests of the loop
OutsideWindow(date, win) ==
    \/ win.start # NoneVal /\ DateLt(date, win.start)
    \/ win.end # NoneVal /\ DateLt(win.end, date)

\* the key of buckets
KeyOf(a, date) ==
    [project_id |-> a["projectId"], person_id |-> a["personId"], month |-> FirstOfMonth(date)]

\* buckets[key] += hours, on a defaultdict(float) held as its items in insertion order
AddHours(bk, key, h) ==
    IF \E i \in 1..Len(bk) : bk[i].key = key
    THEN [i \in 1..Len(bk) |-> IF bk[i].key = key THEN [bk[i] EXCEPT !.hours = @ + h] ELSE bk[i]]
    ELSE Append(bk, [key |-> key, hours |-> h])

\* One iteration of the loop over the actuals: the new buckets, or ValueError.
LoopBodyMinutesFirst(bk, a, win) ==
    LET minutes == MinutesOrZero(a)
        parsed == FromIsoFormat(a["date"])
    IN  IF SkipMinutes(minutes) THEN [raised |-> FALSE, buckets |-> bk]
        ELSE IF ~parsed.ok THEN [raised |-> TRUE, buckets |-> bk]
        ELSE IF OutsideWindow(parsed.date, win) THEN [raised |-> FALSE, buckets |-> bk]
        ELSE [raised |-> FALSE,
              buckets |-> AddHours(bk, KeyOf(a, parsed.date), MinutesToHours(minutes))]

LoopBody(bk, a, win) ==
    LET parsed == FromIsoFormat(a["date"])
        minutes == MinutesOrZero(a)
    IN  IF ~parsed.ok THEN [raised |-> TRUE, buckets |-> bk]
        ELSE IF OutsideWindow(parsed.date, win) THEN [raised |-> FALSE, buckets |-> bk]
        ELSE IF SkipMinutes(minutes) THEN [raised |-> FALSE, buckets |-> bk]
        ELSE [raised |-> FALSE,
              buckets |-> AddHours(bk, KeyOf(a, parsed.date), MinutesToHours(minutes))]

\* the sort key lambda x: (x[0][0], x[0][2], x[0][1]) and the order of such tuples
SortKeyPersonFirst(key) == <<key.project_id, key.person_id, key.month.y, key.month.m, key.month.d>>

SortKey(key) == <<key.project_id, key.month.y, key.month.m, key.month.d, key.person_id>>

TupleLess(s, t) ==
    \E i \in 1..Len(s) :
        /\ s[i] < t[i]
        /\ \A j \in 1..(i - 1) : s[j] = t[j]

\* sorted(): a stable sort, item by item
InsertStable(srt, x) ==
    LET n == Cardinality({i \in 1..Len(srt) : ~TupleLess(SortKey(x.key), SortKey(srt[i].key))})
    IN  SubSeq(srt, 1, n) \o <<x>> \o SubSeq(srt, n + 1, Len(srt))

RECURSIVE SortItems(_)
SortItems(items) ==
    IF items = <<>> THEN <<>>
    ELSE InsertStable(SortItems(SubSeq(items, 1, Len(items) - 1)), items[Len(items)])

\* str(id) for the ids of the model
IdText(n) == CASE n = 0 -> "0" [] n = 1 -> "1" [] n = 2 -> "2" [] OTHER -> "n"

\* the upstream's people and projects (one page each)
PeopleValues ==
    << [id |-> 1, firstName |-> <<"Ann">>, lastName |-> <<"Lee">>, email |-> "ann@x"],
       [id |-> 2, firstName |-> <<>>, lastName |-> <<>>, email |-> "bo@x"] >>
ProjectValues == << [id |-> 1, name |-> <<"Apollo">>] >>

\* a name is held as its words: "first last".strip() or email
DisplayName(p) ==
    IF p.firstName \o p.lastName = <<>> THEN <<p.email>> ELSE p.firstName \o p.lastName

\* people_lookup / projects_lookup over the drained values
PeopleLookup(values) ==
    [id \in {values[i].id : i \in 1..Len(values)} |->
        DisplayName(values[CHOOSE i \in 1..Len(values) :
            values[i].id = id /\ \A j \in (i + 1)..Len(values) : values[j].id # id])]
ProjectsLookup(values) ==
    [id \in {values[i].id : i \in 1..Len(values)} |->
        values[CHOOSE i \in 1..Len(values) :
            values[i].id = id /\ \A j \in (i + 1)..Len(values) : values[j].id # id].name]

\* the rows of the report: sorted items, names looked up, hours rounded
BuildRowsUnsorted(bk, lk) ==
    [i \in 1..Len(bk) |->
        [project_id |-> bk[i].key.project_id,
         project_name |-> Get(lk.projects, bk[i].key.project_id,
                              <<"Project", IdText(bk[i].key.project_id)>>),
         person_id |-> bk[i].key.person_id,
         person_name |-> Get(lk.people, bk[i].key.person_id,
                             <<"Person", IdText(bk[i].key.person_id)>>),
         month |-> IsoFormat(bk[i].key.month),
         billable_hours |-> Round2(bk[i].hours)]]

BuildRows(bk, lk) == BuildRowsUnsorted(SortItems(bk), lk)

\* An optional id argument is the set of the ids given: {} is None.
\* matches(row) of billable_hours
Matches(row, project_id, person_id) ==
    /\ ~(project_id \notin {{}, {0}} /\ {row.project_id} # project_id)
    /\ ~(person_id \notin {{}, {0}} /\ {row.person_id} # person_id)

\* [row for row in rows if matches(row)]
FilterRows(rs, project_id, person_id) ==
    LET keep == {i \in 1..Len(rs) : Matches(rs[i], project_id, person_id)}
        RECURSIVE Pick(_)
        Pick(i) == IF i > Len(rs) THEN <<>>
                   ELSE (IF i \in keep THEN <<rs[i]>> ELSE <<>>) \o Pick(i + 1)
    IN  Pick(1)

PeoplePath == <<"/", "p", "e", "o", "p", "l", "e">>
ProjectsPath == <<"/", "p", "r", "o", "j", "e", "c", "t", "s">>
ActualsPath == <<"/", "a", "c", "t", "u", "a", "l", "s">>

JsonPage(values) == [status |-> 200, ctype |-> JsonType, body |-> ("values" :> values), text |-> JsonText]

\* the params of the scans iter_people, iter_projects, iter_actuals
ScanParams(c) == PageParams(SetDefault(EmptyDict, "limit", DefaultLimit), c)

\* the actuals the upstream may hold, by input domain
ActualsOf(md) ==
    CASE md = "sum" ->
            { ("projectId" :> 1) @@ ("personId" :> 1) @@ ("date" :> d) @@ m :
                d \in {Feb01},
                m \in {EmptyDict} \cup {("billableMinutes" :> x) : x \in {0, -15, 15}} }
            \cup { ("projectId" :> 1) @@ ("personId" :> 1) @@ ("date" :> Jan31)
                    @@ ("billableMinutes" :> 15) }
            \cup { ("projectId" :> 1) @@ ("personId" :> 1) @@ ("date" :> Feb30)
                    @@ ("billableMinutes" :> 0) }
      [] md = "sort" ->
            { ("projectId" :> pq[1]) @@ ("personId" :> pq[2]) @@ ("date" :> d) @@ ("billableMinutes" :> 15) :
                pq \in {<<1, 1>>, <<1, 2>>, <<2, 1>>}, d \in {Jan31, Feb01} }
      [] OTHER ->
            { ("projectId" :> p) @@ ("personId" :> q) @@ ("date" :> Feb01) @@ ("billableMinutes" :> 15) :
                p \in {0, 1}, q \in {0, 1} }

\* the arguments billable_hours may be called with, by input domain
ArgsOf(md) ==
    CASE md = "sum" ->
            [start : {NoneVal, Feb01, SlashDate}, end : {NoneVal, EmptyStr, Jan31},
             project_id : {{}}, person_id : {{}}]
      [] md = "sort" ->
            [start : {NoneVal}, end : {NoneVal}, project_id : {{}}, person_id : {{}}]
      [] OTHER ->
            [start : {NoneVal}, end : {NoneVal},
             project_id : {{}, {0}, {1}}, person_id : {{}, {0}, {1}}]

\* billable_hours starts: the dates are parsed, then build_billable_hours_report
\* drains /people and /projects and creates the generator over /actuals.
StartReport ==
    /\ rpc = "called"
    /\ LET ps == ParseDate(args.start)
           pe == ParseDate(args.end)
           people == Request("GET", PeoplePath, ScanParams(Null), NoneVal, JsonPage(PeopleValues))
           projects == Request("GET", ProjectsPath, ScanParams(Null), NoneVal, JsonPage(ProjectValues))
       IN  IF ps.ok /\ pe.ok
           THEN /\ window' = [start |-> ps.date, end |-> pe.date]
                /\ wire' = wire \o people.trips \o projects.trips
                /\ lookups' = [people |-> PeopleLookup(PageValues(people.value)),
                               projects |-> ProjectsLookup(PageValues(projects.value))]
                /\ apage' = [nextCursor |-> Null]
                /\ rpc' = "fetch"
                /\ rerror' = rerror
           ELSE /\ rpc' = "failed"
                /\ rerror' = "InvalidArgument"
                /\ UNCHANGED <<window, wire, lookups, apage>>
    /\ UNCHANGED <<responses, lastCall, pagVars, toolVars, mode, args, npages, streamed, buckets, rows, result>>

\* The generator over /actuals requests a page.  The upstream answers a page, with a
\* cursor unless it is its last page; the items of the page, and where it ends, are
\* drawn as the loop reaches them.
FetchActuals ==
    /\ rpc = "fetch"
    /\ \E c \in {Null} \cup (IF npages + 1 < MaxPages THEN {"c1"} ELSE {}) :
        /\ wire' = wire \o Request("GET", ActualsPath, ScanParams(apage.nextCursor),
                                   NoneVal, JsonPage(<<>>)).trips
        /\ apage' = [nextCursor |-> c]
    /\ npages' = npages + 1
    /\ rpc' = "loop"
    /\ UNCHANGED <<responses, lastCall, pagVars, toolVars, mode, args, window, lookups, streamed,
                   buckets, rows, result, rerror>>

\* The loop takes the next actual of the page and runs its body on it.
ProcessActual ==
    /\ rpc = "loop"
    /\ Len(streamed) < MaxActuals
    /\ \E a \in ActualsOf(mode) :
        LET out == LoopBody(buckets, a, window) IN
        /\ streamed' = Append(streamed, a)
        /\ IF out.raised
           THEN /\ rpc' = "failed"
                /\ rerror' = "InvalidArgument"
                /\ UNCHANGED buckets
           ELSE /\ buckets' = out.buckets
                /\ UNCHANGED <<rpc, rerror>>
    /\ UNCHANGED <<wire, responses, lastCall, pagVars, toolVars, mode, args, window, lookups, apage,
                   npages, rows, result>>

\* The page is exhausted: with a cursor the generator goes round; without one the
\* stream ends, the rows are built, and billable_hours filters and returns them.
EndActualsPage ==
    /\ rpc = "loop"
    /\ IF Truthy(apage.nextCursor)
       THEN /\ rpc' = "fetch"
            /\ UNCHANGED <<rows, result>>
       ELSE /\ rpc' = "done"
            /\ rows' = BuildRows(buckets, lookups)
            /\ result' = FilterRows(rows', args.project_id, args.person_id)
    /\ UNCHANGED <<wire, responses, lastCall, pagVars, toolVars, mode, args, window, lookups, apage,
                   npages, streamed, buckets, rerror>>

\* billable_hours(start, end, project_id, person_id) was called.
InitReport ==
    /\ wire = <<>>
    /\ responses = <<>>
    /\ lastCall = NoCall
    /\ PaginateIdle
    /\ mode \in {"sum", "sort", "filter"}
    /\ args \in ArgsOf(mode)
    /\ rpc = "called"
    /\ window = NoneVal
    /\ lookups = NoneVal
    /\ apage = NoneVal
    /\ npages = 0
    /\ streamed = <<>>
    /\ buckets = <<>>
    /\ rows = <<>>
    /\ result = <<>>
    /\ rerror = "none"
    /\ ToolsIdle

NextReport == StartReport \/ FetchActuals \/ ProcessActual \/ EndActualsPage

SpecReport == InitReport /\ [][NextReport]_vars

-----------------------------------------------------------------------------
(***************************************************************************)
(* The query tools and runn_request (src/mcp_runn_server.py).              *)
(*                                                                         *)
(* A record of a collection is a dict; an absent key reads as None through *)
(* dict.get.  An optional int argument is the set of the values given.     *)
(***************************************************************************)

\* the most records the upstream holds in the target collection of a tool
MaxRecords == 2
\* the most people the upstream holds when a team tool scans /people
MaxTeamPeople == 1

\* d.get(k) == v, for a v that is not None
KeyIs(d, k, v) == k \in DOMAIN d /\ d[k] = v

\* the truth value of d.get(k) (and of d.get(k, False)) for a boolean field
Flag(d, k) == k \in DOMAIN d /\ d[k] = TRUE

\* _to_date: None for None and for the empty string, else parse_date
ToDate(value) ==
    IF value = NoneVal \/ value = EmptyStr
    THEN [ok |-> TRUE, date |-> NoneVal]
    ELSE ParseDate(value)

\* _in_range
InRange(date_value, start, end) ==
    IF date_value = NoneVal THEN FALSE
    ELSE IF start # NoneVal /\ DateLt(date_value, start) THEN FALSE
    ELSE IF end # NoneVal /\ DateLt(end, date_value) THEN FALSE
    ELSE TRUE

\* _range_overlaps
RangeOverlapsStrict(start_a, end_a, start_b, end_b) ==
    IF start_a = NoneVal /\ end_a = NoneVal THEN TRUE
    ELSE LET end_a2 == IF end_a = NoneVal THEN start_a ELSE end_a
             start_a2 == IF start_a = NoneVal THEN end_a2 ELSE start_a
         IN  IF start_b # NoneVal /\ end_a2 # NoneVal /\ ~DateLt(start_b, end_a2) THEN FALSE
             ELSE IF end_b # NoneVal /\ start_a2 # NoneVal /\ ~DateLt(start_a2, end_b) THEN FALSE
             ELSE TRUE

RangeOverlaps(start_a, end_a, start_b, end_b) ==
    IF start_a = NoneVal /\ end_a = NoneVal THEN TRUE
    ELSE LET end_a2 == IF end_a = NoneVal THEN start_a ELSE end_a
             start_a2 == IF start_a = NoneVal THEN end_a2 ELSE start_a
         IN  IF start_b # NoneVal /\ end_a2 # NoneVal /\ DateLt(end_a2, start_b) THEN FALSE
             ELSE IF end_b # NoneVal /\ start_a2 # NoneVal /\ DateLt(end_b, start_a2) THEN FALSE
             ELSE TRUE

\* the ids a loop appended, in order: [x["id"] for x in xs if keep(x)]
RECURSIVE IdsWhere(_, _)
IdsWhere(xs, keep) ==
    IF xs = <<>> THEN <<>>
    ELSE (IF keep[1] THEN <<Head(xs)["id"]>> ELSE <<>>) \o IdsWhere(Tail(xs), Tail(keep))

\* _people_ids_for_team, given the drained /people scan
PeopleIdsForTeamWithArchived(people, team_id, include_archived) ==
    IdsWhere(people, [i \in 1..Len(people) |-> KeyIs(people[i], "teamId", team_id)])

PeopleIdsForTeam(people, team_id, include_archived) ==
    IdsWhere(people, [i \in 1..Len(people) |->
        /\ KeyIs(people[i], "teamId", team_id)
        /\ ~(~include_archived /\ Flag(people[i], "isArchived"))])

\* set(ids)
SetOf(ids) == {ids[i] : i \in 1..Len(ids)}

\* A skill level is a JSON number, a JSON string or JSON null.
IntLevel(n) == [type |-> "int", n |-> n, s |-> ""]
StrLevel(s) == [type |-> "str", n |-> 0, s |-> s]
NullLevel == [type |-> "null", n |-> 0, s |-> ""]

\* the strings of the model that int() accepts, and their values
IntStrings == ("1" :> 1) @@ ("2" :> 2) @@ ("3" :> 3)

\* int(level): the integer, or ValueError
IntOf(level) ==
    IF level.type = "int" THEN [ok |-> TRUE, n |-> level.n]
    ELSE IF level.type = "str" /\ level.s \in DOMAIN IntStrings
         THEN [ok |-> TRUE, n |-> IntStrings[level.s]]
         ELSE [ok |-> FALSE, n |-> 0]

\* person.get("skills") or []
SkillsOf(person) == Get(person, "skills", <<>>)

\* _person_has_skill: the loop over the skills; min_level is {} for None
RECURSIVE SkillLoopFirstEntry(_, _, _)
SkillLoopFirstEntry(skills, skill_id, min_level) ==
    IF skills = <<>> THEN FALSE
    ELSE LET skill == Head(skills)
             rest == SkillLoopFirstEntry(Tail(skills), skill_id, min_level)
         IN  IF ~KeyIs(skill, "id", skill_id) THEN rest
             ELSE IF min_level = {} THEN TRUE
             ELSE IF "level" \notin DOMAIN skill \/ skill["level"] = NullLevel THEN FALSE
             ELSE LET n == IntOf(skill["level"])
                  IN  n.ok /\ \A ml \in min_level : n.n >= ml

RECURSIVE SkillLoop(_, _, _)
SkillLoop(skills, skill_id, min_level) ==
    IF skills = <<>> THEN FALSE
    ELSE LET skill == Head(skills)
             rest == SkillLoop(Tail(skills), skill_id, min_level)
         IN  IF ~KeyIs(skill, "id", skill_id) THEN rest
             ELSE IF min_level = {} THEN TRUE
             ELSE IF "level" \notin DOMAIN skill \/ skill["level"] = NullLevel THEN rest
             ELSE LET n == IntOf(skill["level"])
                  IN  IF n.ok /\ \A ml \in min_level : n.n >= ml THEN TRUE ELSE rest

PersonHasSkill(person, skill_id, min_level) == SkillLoop(SkillsOf(person), skill_id, min_level)

\* [x for x in xs if keep(x)]
RECURSIVE Kept(_, _)
Kept(xs, keep) ==
    IF xs = <<>> THEN <<>>
    ELSE (IF keep[1] THEN <<Head(xs)>> ELSE <<>>) \o Kept(Tail(xs), Tail(keep))

\* A filtering loop: what it does with each record ("keep", "skip", "raise") decides
\* how it ends; an exception at any record ends the tool.
LoopResult(records, verdict) ==
    IF \E i \in 1..Len(records) : verdict[i] = "raise"
    THEN [raised |-> TRUE, value |-> <<>>]
    ELSE [raised |-> FALSE,
          value |-> Kept(records, [i \in 1..Len(records) |-> verdict[i] = "keep"])]

AssignmentTools ==
    {"list_assignments_by_person", "list_assignments_by_project", "list_assignments_by_role",
     "list_assignments_by_team"}
ActualTools ==
    {"list_actuals_by_date_range", "list_actuals_by_person", "list_actuals_by_project",
     "list_actuals_by_role", "list_actuals_by_team"}
TeamTools == {"list_assignments_by_team", "list_actuals_by_team"}
QueryTools == AssignmentTools \cup ActualTools \cup {"list_people_by_skill"}

\* the field of the record a tool compares with its id argument
KeyField(t) ==
    CASE t \in {"list_assignments_by_person", "list_actuals_by_person"} -> "personId"
      [] t \in {"list_assignments_by_project", "list_actuals_by_project"} -> "projectId"
      [] OTHER -> "roleId"

\* the first test of a tool's loop body
KeyOk(t, a, ar, person_ids) ==
    CASE t \in TeamTools -> "personId" \in DOMAIN a /\ a["personId"] \in person_ids
      [] t = "list_actuals_by_date_range" ->
            /\ ~(ar.person_id # {} /\ ~("personId" \in DOMAIN a /\ a["personId"] \in ar.person_id))
            /\ ~(ar.project_id # {} /\ ~("projectId" \in DOMAIN a /\ a["projectId"] \in ar.project_id))
      [] OTHER -> KeyIs(a, KeyField(t), ar.id)

\* the loop body of the list_assignments_by_* tools
AssignmentVerdict(t, a, ar, person_ids, start_date, end_date) ==
    IF ~KeyOk(t, a, ar, person_ids) THEN "skip"
    ELSE IF ar.active_only /\ ~Flag(a, "isActive") THEN "skip"
    ELSE IF start_date # NoneVal \/ end_date # NoneVal
    THEN LET a_start == ToDate(Get(a, "startDate", NoneVal))
             a_end == ToDate(Get(a, "endDate", NoneVal))
         IN  IF ~a_start.ok \/ ~a_end.ok THEN "raise"
             ELSE IF ~RangeOverlaps(a_start.date, a_end.date, start_date, end_date) THEN "skip"
             ELSE "keep"
    ELSE "keep"

\* the loop body of the list_actuals_by_* tools; list_actuals_by_date_range has no
\* "if start_date or end_date" around its date test
ActualVerdict(t, a, ar, person_ids, start_date, end_date) ==
    IF ~KeyOk(t, a, ar, person_ids) THEN "skip"
    ELSE IF t # "list_actuals_by_date_range" /\ start_date = NoneVal /\ end_date = NoneVal
    THEN "keep"
    ELSE LET d == ToDate(Get(a, "date", NoneVal))
         IN  IF ~d.ok THEN "raise"
             ELSE IF ~InRange(d.date, start_date, end_date) THEN "skip"
             ELSE "keep"

\* the loop body of list_people_by_skill
SkillVerdict(p, ar) ==
    IF ~ar.include_archived /\ Flag(p, "isArchived") THEN "skip"
    ELSE IF PersonHasSkill(p, ar.id, ar.min_level) THEN "keep"
    ELSE "skip"

\* What a tool does once its scans are drained: people is the /people scan of a team
\* tool, records the scan of its target collection.
RunTool(t, ar, people, records) ==
    IF t = "runn_request" THEN [raised |-> FALSE, value |-> records]
    ELSE IF t = "list_people_by_skill"
    THEN LoopResult(records, [i \in 1..Len(records) |-> SkillVerdict(records[i], ar)])
    ELSE LET person_ids == IF t \in TeamTools
                           THEN SetOf(PeopleIdsForTeam(people, ar.id, ar.include_archived))
                           ELSE {}
             start_date == ToDate(ar.start)
             end_date == ToDate(ar.end)
         IN  IF ~start_date.ok \/ ~end_date.ok THEN [raised |-> TRUE, value |-> <<>>]
             ELSE IF t \in AssignmentTools
             THEN LoopResult(records, [i \in 1..Len(records) |->
                      AssignmentVerdict(t, records[i], ar, person_ids, start_date.date, end_date.date)])
             ELSE LoopResult(records, [i \in 1..Len(records) |->
                      ActualVerdict(t, records[i], ar, person_ids, start_date.date, end_date.date)])

AssignmentsPath == <<"/", "a", "s", "s", "i", "g", "n", "m", "e", "n", "t", "s">>

Jan10 == DateStr(2025, 1, 10)
Jan15 == DateStr(2025, 1, 15)
Jan20 == DateStr(2025, 1, 20)
Mar01 == DateStr(2025, 3, 1)

\* the people the upstream may hold, by tool
PeopleOf(t) ==
    IF t = "list_people_by_skill"
    THEN { ("id" :> 1) @@ ("skills" :> <<("id" :> 5) @@ ("level" :> IntLevel(3))>>),
           ("id" :> 2) @@ ("skills" :> <<("id" :> 5) @@ ("level" :> StrLevel("x")),
                                         ("id" :> 5) @@ ("level" :> StrLevel("2"))>>),
           ("id" :> 3) @@ ("skills" :> <<("id" :> 5) @@ ("level" :> NullLevel),
                                         ("id" :> 6) @@ ("level" :> IntLevel(3)),
                                         ("id" :> 5) @@ ("level" :> IntLevel(1))>>),
           ("id" :> 4) @@ ("skills" :> <<("id" :> 5)>>),
           ("id" :> 5) @@ ("isArchived" :> TRUE)
                       @@ ("skills" :> <<("id" :> 5) @@ ("level" :> IntLevel(3))>>),
           ("id" :> 6) }
    ELSE { ("id" :> 1) @@ ("teamId" :> 7),
           ("id" :> 2) @@ ("teamId" :> 7) @@ ("isArchived" :> TRUE),
           ("id" :> 3) @@ ("teamId" :> 8) }

\* the assignments the upstream may hold, by tool
AssignmentsOf(t) ==
    IF t \in TeamTools
    THEN { ("personId" :> q) @@ ("isActive" :> TRUE) @@ ("startDate" :> Jan10)
                              @@ ("endDate" :> Jan20) : q \in {1, 2} }
         \cup { ("isActive" :> TRUE) @@ ("startDate" :> Jan10) @@ ("endDate" :> Jan20),
                ("personId" :> 1) @@ ("startDate" :> Jan10) @@ ("endDate" :> Jan20) }
    ELSE { (KeyField(t) :> 1) @@ s @@ e :
             s \in {EmptyDict, ("startDate" :> Jan10)}, e \in {EmptyDict, ("endDate" :> Jan20)} }
         \cup { (KeyField(t) :> 2) @@ ("startDate" :> Jan10) @@ ("endDate" :> Jan20) }

\* the actuals the upstream may hold, by tool
ActualRecordsOf(t) ==
    IF t \in TeamTools
    THEN { ("personId" :> q) @@ ("date" :> Jan15) : q \in {1, 2, 3} }
         \cup { ("date" :> Jan15) }
    ELSE LET k == IF t = "list_actuals_by_date_range" THEN "personId" ELSE KeyField(t)
         IN  { (k :> 1) @@ d : d \in {EmptyDict, ("date" :> Jan15), ("date" :> Jan31),
                                      ("date" :> Feb30)} }
             \cup { (k :> 2) @@ ("date" :> Jan15) }

\* the records of a tool's target collection
TargetRecordsOf(t) ==
    CASE t \in AssignmentTools -> AssignmentsOf(t)
      [] t \in ActualTools -> ActualRecordsOf(t)
      [] t = "list_people_by_skill" -> PeopleOf(t)
      [] OTHER -> {"a", "b"}

\* a query window: the start and end arguments
Window(s, e) == [start |-> s, end |-> e]
AssignmentWindows ==
    { Window(NoneVal, NoneVal), Window(Jan15, Feb01), Window(Feb01, Mar01),
      Window(NoneVal, Jan10), Window(Jan20, NoneVal) }
ActualWindows ==
    { Window(NoneVal, NoneVal), Window(Jan15, NoneVal), Window(NoneVal, Jan15),
      Window(Jan31, Feb01) }

\* the arguments a tool may be called with
ToolArgs(t) ==
    CASE t = "list_assignments_by_team" ->
            { [id |-> 7, start |-> NoneVal, end |-> NoneVal, active_only |-> b,
               include_archived |-> b] : b \in BOOLEAN }
            \cup { [id |-> 7, start |-> Feb01, end |-> Mar01, active_only |-> FALSE,
                    include_archived |-> FALSE] }
      [] t \in AssignmentTools ->
            { [id |-> 1, start |-> w.start, end |-> w.end, active_only |-> FALSE] :
                w \in AssignmentWindows }
      [] t = "list_actuals_by_team" ->
            { [id |-> 7, start |-> NoneVal, end |-> NoneVal, include_archived |-> ia] :
                ia \in BOOLEAN }
            \cup { [id |-> 7, start |-> Jan20, end |-> NoneVal, include_archived |-> FALSE] }
      [] t = "list_actuals_by_date_range" ->
            { [start |-> w.start, end |-> w.end, person_id |-> q, project_id |-> {}] :
                w \in ActualWindows \ {Window(NoneVal, NoneVal)}, q \in {{}, {1}} }
      [] t \in ActualTools ->
            { [id |-> 1, start |-> w.start, end |-> w.end] : w \in ActualWindows }
      [] t = "list_people_by_skill" ->
            { [id |-> 5, min_level |-> ml, include_archived |-> ia] :
                ml \in {{}, {0}, {2}}, ia \in BOOLEAN }
      [] OTHER ->
            { [method |-> m, path |-> p, params |-> prm, json_body |-> jb, paginate |-> pg,
               limit |-> DefaultLimit] :
                m \in Methods, p \in {RelBare, AbsHttp}, prm \in {NoneVal, ("q" :> "x")},
                jb \in {NoneVal, ("k" :> "v")}, pg \in BOOLEAN }

\* sequences of at most n elements of S
SeqsUpTo(S, n) == UNION {[1..k -> S] : k \in 0..n}

\* The answers a scan is tried against: a page of records of the collection, with or
\* without a cursor, or a server error.
ScanResponses(records, room) ==
    { [status |-> 200, ctype |-> JsonType, text |-> JsonText, body |-> ("values" :> vs) @@ c] :
        vs \in SeqsUpTo(records, room), c \in {EmptyDict, ("nextCursor" :> "c1")} }
    \cup { [status |-> 500, ctype |-> TextType, body |-> EmptyDict, text |-> "oops"] }

\* paginate=True is refused for this method
PaginateRejectsCaseSensitive(method) == method # "GET"

PaginateRejects(method) == Upper(method) # "GET"

\* the path and the params of a tool's scan: _list_endpoint(client, path, paginate=True)
\* is client.paginate(path, params=None, limit=200)
ScanPath(t, ar, phase) ==
    IF phase = "people" THEN PeoplePath
    ELSE CASE t \in AssignmentTools -> AssignmentsPath
           [] t \in ActualTools -> ActualsPath
           [] t = "list_people_by_skill" -> PeoplePath
           [] OTHER -> ar.path
ScanBase(t, ar) ==
    IF t = "runn_request"
    THEN SetDefault(DictOrEmpty(ar.params), "limit", ar.limit)
    ELSE SetDefault(DictOrEmpty(NoneVal), "limit", DefaultLimit)

\* The tool starts.  runn_request without paginate makes its one call of request and
\* ends; with paginate it refuses any method but GET, else it starts draining the
\* path.  A team tool starts with the /people scan, any other with its target's scan.
ToolStart ==
    /\ tpc = "called"
    /\ IF tool = "runn_request" /\ ~targs.paginate
       THEN \E resp \in DirectResponses :
              LET out == Request(targs.method, targs.path, targs.params, targs.json_body, resp) IN
              /\ wire' = out.trips
              /\ responses' = IF out.trips = <<>> THEN <<>> ELSE <<resp>>
              /\ tpc' = IF out.kind = "return" THEN "done" ELSE "failed"
              /\ tresult' = IF out.kind = "return" THEN out.value ELSE tresult
              /\ terror' = IF out.kind = "return" THEN terror ELSE out.kind
       ELSE /\ IF tool = "runn_request" /\ PaginateRejects(targs.method)
               THEN tpc' = "failed" /\ terror' = "InvalidArgument"
               ELSE /\ tpc' = IF tool \in TeamTools THEN "people" ELSE "target"
                    /\ terror' = terror
            /\ UNCHANGED <<wire, responses, tresult>>
    /\ UNCHANGED <<lastCall, pagVars, repVars, tool, targs, tcursor, titems, tpeople>>

\* list(client.paginate(...)) requests the next page of the scan in progress and takes
\* its values.  With a nextCursor the scan goes on; without one it is drained: a team
\* tool goes from /people to its target, and after the target's scan the tool runs its
\* loop and returns.  The answers are kept in responses for runn_request only, whose
\* result is the pages themselves; a query tool's scan is kept as the items it drained.
ScanPage ==
    /\ tpc \in {"people", "target"}
    /\ Len(wire) < MaxRequests
    /\ \E resp \in ScanResponses(IF tpc = "people" THEN PeopleOf(tool) ELSE TargetRecordsOf(tool),
                                 (IF tpc = "people" THEN MaxTeamPeople ELSE MaxRecords)
                                     - Len(titems)) :
        LET out == Request("GET", ScanPath(tool, targs, tpc),
                           PageParams(ScanBase(tool, targs), tcursor), NoneVal, resp)
            items == titems \o PageValues(out.value)
            ran == RunTool(tool, targs, tpeople, items)
        IN  /\ wire' = wire \o out.trips
            /\ responses' = IF out.trips = <<>> \/ tool # "runn_request"
                            THEN responses ELSE Append(responses, resp)
            /\ IF out.kind # "return"
               THEN /\ tpc' = "failed"
                    /\ terror' = out.kind
                    /\ UNCHANGED <<tcursor, titems, tpeople, tresult>>
               ELSE IF AfterPage(out.value) = "fetch"
               THEN /\ tcursor' = Get(out.value, "nextCursor", Null)
                    /\ titems' = items
                    /\ UNCHANGED <<tpc, tpeople, tresult, terror>>
               ELSE IF tpc = "people"
               THEN /\ tpeople' = items
                    /\ titems' = <<>>
                    /\ tcursor' = Null
                    /\ tpc' = "target"
                    /\ UNCHANGED <<tresult, terror>>
               ELSE /\ titems' = items
                    /\ tcursor' = Null
                    /\ tpc' = IF ran.raised THEN "failed" ELSE "done"
                    /\ terror' = IF ran.raised THEN "InvalidArgument" ELSE terror
                    /\ tresult' = ran.value
                    /\ UNCHANGED tpeople
    /\ UNCHANGED <<lastCall, pagVars, repVars, tool, targs>>

\* A tool of the server was called.
InitTools ==
    /\ wire = <<>>
    /\ responses = <<>>
    /\ lastCall = NoCall
    /\ PaginateIdle
    /\ ReportIdle
    /\ tool \in QueryTools \cup {"runn_request"}
    /\ targs \in ToolArgs(tool)
    /\ tpc = "called"
    /\ tcursor = Null
    /\ titems = <<>>
    /\ tpeople = <<>>
    /\ tresult = <<>>
    /\ terror = "none"

NextTools == ToolStart \/ ScanPage

SpecTools == InitTools /\ [][NextTools]_vars

-----------------------------------------------------------------------------
(* The claims about request and paginate *)

\* a page as the upstream means it: the 200 JSON responses carry values and a cursor
IsPage(r) == r.status = 200 /\ r.ctype = JsonType /\ r.text = JsonText
ValuesOf(r) == IF IsPage(r) /\ "values" \in DOMAIN r.body THEN r.body["values"] ELSE <<>>
CursorOf(r) == IF IsPage(r) /\ "nextCursor" \in DOMAIN r.body THEN r.body["nextCursor"] ELSE Null
HasCursor(r) == CursorOf(r) \notin {Null, ""}

RECURSIVE AllValues(_)
AllValues(rs) == IF rs = <<>> THEN <<>> ELSE ValuesOf(Head(rs)) \o AllValues(Tail(rs))

\* the number of values of the first k responses
TotalValues(k) == Len(AllValues(SubSeq(responses, 1, k)))

CallerDict == IF callerParams = NoneVal THEN EmptyDict ELSE callerParams

\* C1 as stated: a fully consumed paginate yields the concatenation of the pages'
\* values, issues one GET per page, the first without a cursor parameter and each
\* later one with the previous page's nextCursor, every request carrying the
\* caller's params plus a limit.
C1_FirstRequestHasNoCursor ==
    pc = "done" =>
        /\ delivered = AllValues(responses)
        /\ Len(wire) = Len(responses)
        /\ "cursor" \notin DOMAIN wire[1].params
        /\ \A k \in 1..Len(wire) :
            /\ wire[k].method = "GET"
            /\ \A key \in DOMAIN CallerDict : wire[k].params[key] = CallerDict[key]
            /\ "limit" \in DOMAIN wire[k].params
            /\ k > 1 => wire[k].params["cursor"] = CursorOf(responses[k - 1])

\* C1 (amended): as C1, except that a cursor key in the caller's params is sent as it
\* is on the first request (and replaced by the pages' cursors afterwards), and that
\* the limit sent is the caller's own limit param when there is one, else the limit
\* argument.
C1_PaginateYieldsAllPagesInOrder ==
    pc = "done" =>
        /\ delivered = AllValues(responses)
        /\ Len(wire) = Len(responses)
        /\ \A k \in 1..(Len(responses) - 1) : HasCursor(responses[k])
        /\ ~HasCursor(responses[Len(responses)])
        /\ \A k \in 1..Len(wire) :
            /\ wire[k].method = "GET"
            /\ wire[k].url = BaseUrl \o <<"/">> \o path
            /\ DOMAIN wire[k].params \subseteq (DOMAIN CallerDict) \cup {"limit", "cursor"}
            /\ \A key \in (DOMAIN CallerDict) \ {"cursor"} : wire[k].params[key] = CallerDict[key]
            /\ "limit" \in DOMAIN wire[k].params
            /\ "limit" \notin DOMAIN CallerDict => wire[k].params["limit"] = limit
            /\ k = 1 => IF "cursor" \in DOMAIN CallerDict
                        THEN wire[1].params["cursor"] = CallerDict["cursor"]
                        ELSE "cursor" \notin DOMAIN wire[1].params
            /\ k > 1 => /\ "cursor" \in DOMAIN wire[k].params
                        /\ wire[k].params["cursor"] = CursorOf(responses[k - 1])

\* two pages, [b, a] with cursor c2 and then [a] with none, consumed to the end
C1_Witness ==
    /\ pc = "done"
    /\ Len(wire) = 2
    /\ delivered = <<"b", "a", "a">>
    /\ wire[2].params["cursor"] = "c2"
    /\ "cursor" \notin DOMAIN wire[1].params

\* C2: pagination is pull-driven. No request before the first pull; the request for
\* page k+1 is issued only after every value of pages 1..k was delivered and the
\* consumer pulled once more; while the generator is suspended (or not started) no
\* step of it can run, so a consumer that stops pulling causes no further request.
C2_PullDrivenNoPrefetch ==
    /\ pulls = 0 => wire = <<>>
    /\ Len(wire) = Len(responses)
    /\ \A k \in 1..(Len(wire) - 1) :
        /\ Len(delivered) >= TotalValues(k)
        /\ pulls > TotalValues(k)
    /\ pc = "suspended" => pulls = Len(delivered)
    /\ pc \in {"created", "suspended"} =>
        /\ ~ENABLED Fetch
        /\ ~ENABLED Yield
        /\ ~ENABLED EndPage

\* the consumer stopped after the first record of the second page, which has more
C2_Witness ==
    /\ pc = "suspended"
    /\ Len(wire) = 2
    /\ idx = 1
    /\ Len(PageValues(payload)) = 2
    /\ pulls = Len(delivered)
    /\ Len(delivered) = 3

\* C3: paginate ends exactly at the first page whose nextCursor is absent, null or
\* empty and requests nothing after it; a page with a non-empty cursor never ends
\* it, whatever its values; nothing but the upstream's cursorless page (or an
\* exception) stops the loop: as long as the cursor is non-empty the next request
\* can be issued (the model's MaxRequests aside).
C3_EndsAtFirstCursorlessPage ==
    /\ \A k \in 1..(Len(responses) - 1) : HasCursor(responses[k])
    /\ pc = "done" =>
        /\ responses # <<>>
        /\ ~HasCursor(responses[Len(responses)])
        /\ Len(wire) = Len(responses)
    /\ (responses # <<>> /\ ~HasCursor(responses[Len(responses)])) => ~ENABLED Fetch
    /\ (responses # <<>> /\ HasCursor(responses[Len(responses)])) =>
        /\ pc \in {"loop", "suspended", "fetch"}
        /\ pc = "fetch" => Truthy(cursor)
    /\ (pc = "fetch" /\ Len(wire) < MaxRequests) => ENABLED Fetch

\* three pages: an empty one with a cursor, one more, then one with an empty-string cursor
C3_Witness ==
    /\ pc = "done"
    /\ Len(responses) = 3
    /\ ValuesOf(responses[1]) = <<>>
    /\ HasCursor(responses[1])
    /\ "nextCursor" \in DOMAIN responses[3].body
    /\ responses[3].body["nextCursor"] = ""

\* an absolute URL, as the claim words it
IsAbsoluteUrl(p) ==
    \/ (Len(p) >= 7 /\ \A i \in 1..7 : p[i] = HttpPrefix[i])
    \/ (Len(p) >= 8 /\ \A i \in 1..8 : p[i] = HttpsPrefix[i])

\* C4: request with an absolute URL fails with InvalidArgument (ValueError) and makes
\* no round trip; with any other path it makes exactly one, to the base URL followed
\* by the path, a leading slash added when the path has none.
C4_AbsolutePathRejectedElseOneRoundTrip ==
    lastCall.made =>
        IF IsAbsoluteUrl(lastCall.path)
        THEN /\ lastCall.kind = "InvalidArgument"
             /\ wire = <<>>
        ELSE /\ lastCall.kind # "InvalidArgument"
             /\ Len(wire) = 1
             /\ wire[1].method = Upper(lastCall.method)
             /\ wire[1].url = BaseUrl \o (IF lastCall.path # <<>> /\ lastCall.path[1] = "/"
                                          THEN lastCall.path
                                          ELSE <<"/">> \o lastCall.path)

C4_Witness ==
    /\ lastCall.made
    /\ lastCall.path = AbsHttp
    /\ lastCall.kind = "InvalidArgument"
    /\ wire = <<>>

Is2xx(status) == status >= 200 /\ status <= 299

\* C5 as stated: every response whose status is not 2xx makes the request fail with an
\* HttpError after one round trip; inside paginate the failing page is the last one
\* requested, the generator raised HttpError at that pull, nothing of that page was
\* delivered and all values of the earlier pages were.
C5_Non2xxRaisesHttpError ==
    /\ lastCall.made /\ wire # <<>> /\ ~Is2xx(lastCall.resp.status) =>
        /\ lastCall.kind = "HttpError"
        /\ Len(wire) = 1
    /\ \A k \in 1..Len(responses) :
        (pc # "none" /\ ~Is2xx(responses[k].status)) =>
            /\ k = Len(responses)
            /\ Len(wire) = k
            /\ pc = "raised"
            /\ error = "HttpError"
            /\ delivered = AllValues(SubSeq(responses, 1, k - 1))

-----------------------------------------------------------------------------
(* The claims about the billable-hours report *)

\* a date as one number, for the comparisons of the claims
DayNumber(d) == d.y * 10000 + d.m * 100 + d.d

\* an ISO-8601 calendar date, as the claims mean it
MonthLengths(y) ==
    <<31, IF y % 4 = 0 /\ (y % 100 # 0 \/ y % 400 = 0) THEN 29 ELSE 28, 31, 30, 31, 30, 31, 31,
      30, 31, 30, 31>>
IsCalendarDate(s) ==
    /\ s.form = "iso"
    /\ s.y >= 1 /\ s.y <= 9999
    /\ s.m >= 1 /\ s.m <= 12
    /\ s.d >= 1 /\ s.d <= MonthLengths(s.y)[s.m]

\* inside the inclusive window [start, end]; a missing bound is unbounded
InsideWindow(s, win) ==
    /\ win.start = NoneVal \/ DayNumber(win.start) <= DayNumber(s)
    /\ win.end = NoneVal \/ DayNumber(s) <= DayNumber(win.end)

\* the streamed actuals that count for a key: that key, in the window, positive minutes
Contributors(key) ==
    { i \in 1..Len(streamed) :
        /\ IsCalendarDate(streamed[i]["date"])
        /\ streamed[i]["projectId"] = key.project_id
        /\ streamed[i]["personId"] = key.person_id
        /\ streamed[i]["date"].y = key.month.y
        /\ streamed[i]["date"].m = key.month.m
        /\ InsideWindow(streamed[i]["date"], window)
        /\ "billableMinutes" \in DOMAIN streamed[i]
        /\ streamed[i]["billableMinutes"] > 0 }

RECURSIVE HalfMinutes(_)
HalfMinutes(S) ==
    IF S = {} THEN 0
    ELSE LET i == CHOOSE x \in S : TRUE
         IN  streamed[i]["billableMinutes"] + HalfMinutes(S \ {i})

AllKeys ==
    { [project_id |-> p, person_id |-> q, month |-> [y |-> 2025, m |-> mm, d |-> 1]] :
        p \in 0..2, q \in 0..2, mm \in 1..2 }

RowKey(row) ==
    [project_id |-> row.project_id, person_id |-> row.person_id,
     month |-> [y |-> row.month.y, m |-> row.month.m, d |-> row.month.d]]

\* C6: when the report is built, each key's total is the sum of minutes/60 over the
\* streamed actuals with that key, a date inside the inclusive window and strictly
\* positive minutes (a half minute is 5/600 hour); a key with no such actual has no
\* bucket and no row.
C6_TotalsSumPositiveMinutesInWindow ==
    rpc = "done" =>
        /\ \A i \in 1..Len(buckets) : buckets[i].key \in AllKeys
        /\ \A key \in AllKeys :
            LET here == {i \in 1..Len(buckets) : buckets[i].key = key}
                rowsHere == {i \in 1..Len(rows) : RowKey(rows[i]) = key}
            IN  IF Contributors(key) = {}
                THEN here = {} /\ rowsHere = {}
                ELSE /\ Cardinality(here) = 1
                     /\ Cardinality(rowsHere) = 1
                     /\ \A i \in here : buckets[i].hours * 120 = HalfMinutes(Contributors(key)) * 600

\* window [Feb 1, -): Jan 31 is out, Feb 1 (the bound) is in, a zero-minute actual makes no row
C6_Witness ==
    /\ rpc = "done"
    /\ window # NoneVal
    /\ window.start = [y |-> 2025, m |-> 2, d |-> 1]
    /\ Len(streamed) = 3
    /\ streamed[1]["date"] = Jan31 /\ MinutesOrZero(streamed[1]) = 15
    /\ streamed[2]["date"] = Feb01 /\ MinutesOrZero(streamed[2]) = 15
    /\ streamed[3]["date"] = Feb01 /\ "billableMinutes" \in DOMAIN streamed[3]
    /\ MinutesOrZero(streamed[3]) = 0
    /\ Len(rows) = 1
    /\ buckets[1].hours = 75

\* the order of the rows, as the claims mean it: project id, then month, then person id
RowRank(row) == <<row.project_id, DayNumber(row.month), row.person_id>>
RankBefore(s, t) ==
    \/ s[1] < t[1]
    \/ s[1] = t[1] /\ s[2] < t[2]
    \/ s[1] = t[1] /\ s[2] = t[2] /\ s[3] < t[3]

\* the report's loop run over a sequence of actuals, none of which raises
RECURSIVE RunLoop(_, _)
RunLoop(as, win) ==
    IF as = <<>> THEN <<>>
    ELSE LoopBody(RunLoop(SubSeq(as, 1, Len(as) - 1), win), as[Len(as)], win).buckets

Reorderings(n) == {f \in [1..n -> 1..n] : \A i, j \in 1..n : f[i] = f[j] => i = j}

\* C7: the rows are strictly ascending in (project id, month, person id), hence no
\* two share a key, and they are the rows the report builds from the same actuals
\* arriving in any other order (and so in any split into pages).
C7_RowsSortedAndOrderIndependent ==
    rpc = "done" =>
        /\ \A i \in 1..(Len(rows) - 1) : RankBefore(RowRank(rows[i]), RowRank(rows[i + 1]))
        /\ \A f \in Reorderings(Len(streamed)) :
            BuildRows(RunLoop([i \in 1..Len(streamed) |-> streamed[f[i]]], window), lookups) = rows

\* person 1's February actual arrived first, on a page of its own; person 2's January row comes first
C7_Witness ==
    /\ rpc = "done"
    /\ npages = 2
    /\ Len(streamed) = 2
    /\ streamed[1]["personId"] = 1 /\ streamed[1]["date"] = Feb01
    /\ streamed[2]["personId"] = 2 /\ streamed[2]["date"] = Jan31
    /\ Len(rows) = 2
    /\ rows[1].project_id = rows[2].project_id
    /\ rows[1].person_id = 2 /\ rows[1].month = DateStr(2025, 1, 1)
    /\ rows[2].person_id = 1 /\ rows[2].month = DateStr(2025, 2, 1)

\* C8: a streamed actual whose date is not an ISO-8601 calendar date makes the report
\* fail with InvalidArgument (ValueError) at that actual, whatever its minutes and
\* wherever it is in the stream; nothing is returned.
C8_BadDateFailsTheReport ==
    \A i \in 1..Len(streamed) :
        ~IsCalendarDate(streamed[i]["date"]) =>
            /\ i = Len(streamed)
            /\ rpc = "failed"
            /\ rerror = "InvalidArgument"
            /\ rows = <<>>
            /\ result = <<>>

\* the second actual, on the second page, has no such day and zero minutes
C8_Witness ==
    /\ rpc = "failed"
    /\ npages = 2
    /\ Len(streamed) = 2
    /\ streamed[1]["date"] = Feb01 /\ MinutesOrZero(streamed[1]) = 15
    /\ streamed[2]["date"] = Feb30
    /\ "billableMinutes" \in DOMAIN streamed[2] /\ MinutesOrZero(streamed[2]) = 0
    /\ Len(buckets) = 1

\* the hundredths nearest to num/den, the even one of two equally near
Distance(h, num, den) == IF den * h >= num THEN den * h - num ELSE num - den * h
NearestHalfEven(num, den) ==
    CHOOSE h \in 0..((num \div den) + 1) :
        \A g \in 0..((num \div den) + 1) :
            \/ Distance(h, num, den) < Distance(g, num, den)
            \/ Distance(h, num, den) = Distance(g, num, den) /\ (h = g \/ h % 2 = 0)

\* C9: each row's billable_hours is the sum of its key's minutes/60 rounded half to
\* even to 2 decimals: with T half minutes in all, the hundredths nearest to
\* 100 * T / 120.
C9_HoursRoundedOncePerRow ==
    rpc = "done" =>
        \A i \in 1..Len(rows) :
            rows[i].billable_hours =
                NearestHalfEven(100 * HalfMinutes(Contributors(RowKey(rows[i]))), 120)

\* 7.5 + 7.5 minutes make 0.25 (each alone rounds to 0.12), and 7.5 alone makes 0.12
C9_Witness ==
    /\ rpc = "done"
    /\ Len(streamed) = 3
    /\ Len(rows) = 2
    /\ rows[1].billable_hours = 25
    /\ rows[2].billable_hours = 12
    /\ Round2(MinutesToHours(15)) + Round2(MinutesToHours(15)) = 24

\* an id filter as the claim means it: every supplied id must be equalled
RECURSIVE Subsequence(_, _, _)
Subsequence(rs, project_id, person_id) ==
    IF rs = <<>> THEN <<>>
    ELSE (IF /\ (project_id = {} \/ Head(rs).project_id \in project_id)
             /\ (person_id = {} \/ Head(rs).person_id \in person_id)
          THEN <<Head(rs)>> ELSE <<>>) \o Subsequence(Tail(rs), project_id, person_id)

\* C10 as stated: billable_hours returns exactly the aggregated rows that equal every
\* supplied id (0 included), in unchanged order, and the requests it issues carry
\* none of the filter.
C10_FilterKeepsExactlyTheSuppliedIds ==
    /\ rpc = "done" => result = Subsequence(rows, args.project_id, args.person_id)
    /\ rpc # "none" => \A k \in 1..Len(wire) : DOMAIN wire[k].params \subseteq {"limit", "cursor"}

-----------------------------------------------------------------------------
(* The claims about the shapes request returns *)

\* the three shapes, as the claims mean them
NoContentShape(r) == ("status_code" :> 204)
TextShape(r) == ("status_code" :> r.status) @@ ("text" :> r.text)
IsJsonContentType(r) == r.ctype \in {"application/json", "application/json; charset=utf-8"}
ExpectedShape(r) ==
    IF r.status = 204 THEN NoContentShape(r)
    ELSE IF IsJsonContentType(r) THEN r.body
    ELSE TextShape(r)

\* a direct call that reached the upstream and was answered 2xx
Answered2xx == lastCall.made /\ wire # <<>> /\ Is2xx(lastCall.resp.status)

\* C17 as stated: for every 2xx response request returns one of the three shapes,
\* decided in the order 204, JSON content type, anything else.
C17_Every2xxReturnsAShape ==
    Answered2xx =>
        /\ lastCall.kind = "return"
        /\ lastCall.value = ExpectedShape(lastCall.resp)

\* C17 (amended): as C17, except that a 2xx response other than 204 whose content type
\* is JSON and whose body is no JSON document makes request raise the decoding error
\* of resp.json() instead of returning.
C17_ShapeBy204ThenJsonThenText ==
    Answered2xx =>
        IF /\ lastCall.resp.status # 204
           /\ IsJsonContentType(lastCall.resp)
           /\ lastCall.resp.text # JsonText
        THEN lastCall.kind = "JSONDecodeError"
        ELSE /\ lastCall.kind = "return"
             /\ lastCall.value = ExpectedShape(lastCall.resp)

\* a 204 whose content type is JSON: the status decides, the body is not parsed
C17_Witness ==
    /\ Answered2xx
    /\ lastCall.resp.status = 204
    /\ lastCall.resp.ctype = JsonType
    /\ lastCall.kind = "return"
    /\ lastCall.value = ("status_code" :> 204)

-----------------------------------------------------------------------------
(* The claims about the query tools *)

\* the elements of a sequence
Range(xs) == {xs[i] : i \in 1..Len(xs)}

\* the ids of the team's people, as the claims mean them
TeamIds ==
    { q["id"] : q \in { r \in Range(tpeople) :
        /\ "teamId" \in DOMAIN r
        /\ r["teamId"] = targs.id
        /\ (targs.include_archived \/ "isArchived" \notin DOMAIN r \/ r["isArchived"] = FALSE) } }

\* the record belongs to what the tool was asked for
OwnerOk(a) ==
    CASE tool \in TeamTools -> "personId" \in DOMAIN a /\ a["personId"] \in TeamIds
      [] tool = "list_actuals_by_date_range" ->
            /\ targs.person_id # {} => ("personId" \in DOMAIN a /\ a["personId"] \in targs.person_id)
            /\ targs.project_id # {} => ("projectId" \in DOMAIN a /\ a["projectId"] \in targs.project_id)
      [] tool \in {"list_assignments_by_person", "list_actuals_by_person"} ->
            "personId" \in DOMAIN a /\ a["personId"] = targs.id
      [] tool \in {"list_assignments_by_project", "list_actuals_by_project"} ->
            "projectId" \in DOMAIN a /\ a["projectId"] = targs.id
      [] OTHER -> "roleId" \in DOMAIN a /\ a["roleId"] = targs.id

ActiveOk(a) == targs.active_only => ("isActive" \in DOMAIN a /\ a["isActive"] = TRUE)

QueryHasStart == targs.start # NoneVal
QueryHasEnd == targs.end # NoneVal

\* the effective interval [s, e] of an assignment with at least one date
HasInterval(a) == "startDate" \in DOMAIN a \/ "endDate" \in DOMAIN a
EffectiveStart(a) == IF "startDate" \in DOMAIN a THEN a["startDate"] ELSE a["endDate"]
EffectiveEnd(a) == IF "endDate" \in DOMAIN a THEN a["endDate"] ELSE a["startDate"]

\* the date filter of the assignment tools, as C11 states it
PassesInterval(a) ==
    \/ ~HasInterval(a)
    \/ /\ ~(QueryHasStart /\ DayNumber(EffectiveEnd(a)) < DayNumber(targs.start))
       /\ ~(QueryHasEnd /\ DayNumber(EffectiveStart(a)) > DayNumber(targs.end))

\* C11: an assignment that is the tool's to return passes the date filter, and is
\* returned, iff its effective interval (a missing date collapsing to the other) does
\* not end before the query's start nor start after the query's end; with neither
\* bound in the query every such assignment is returned.
C11_AssignmentsOverlapCollapsedInterval ==
    (tool \in AssignmentTools /\ tpc = "done") =>
        \A i \in 1..Len(titems) :
            (OwnerOk(titems[i]) /\ ActiveOk(titems[i])) =>
                /\ titems[i] \in Range(tresult) <=> PassesInterval(titems[i])
                /\ (~QueryHasStart /\ ~QueryHasEnd) => titems[i] \in Range(tresult)

\* window [Jan 15, Feb 1]: [Jan 10, Jan 20] overlaps it, a start-only Jan 10 does not
C11_Witness ==
    /\ tool = "list_assignments_by_person"
    /\ tpc = "done"
    /\ targs.start = Jan15 /\ targs.end = Feb01
    /\ titems = << ("personId" :> 1) @@ ("startDate" :> Jan10),
                   ("personId" :> 1) @@ ("startDate" :> Jan10) @@ ("endDate" :> Jan20) >>
    /\ tresult = << ("personId" :> 1) @@ ("startDate" :> Jan10) @@ ("endDate" :> Jan20) >>

\* C12 as stated: an assignment with a startDate S and no endDate is returned for
\* every window whose end is absent or on/after S, and one with only an endDate E for
\* every window whose start is absent or on/before E.
C12_OpenEndIsUnbounded ==
    (tool \in AssignmentTools /\ tpc = "done") =>
        \A i \in 1..Len(titems) :
            LET a == titems[i] IN
            (OwnerOk(a) /\ ActiveOk(a)) =>
                /\ ("startDate" \in DOMAIN a /\ "endDate" \notin DOMAIN a
                      /\ (~QueryHasEnd \/ DayNumber(targs.end) >= DayNumber(a["startDate"])))
                    => a \in Range(tresult)
                /\ ("endDate" \in DOMAIN a /\ "startDate" \notin DOMAIN a
                      /\ (~QueryHasStart \/ DayNumber(targs.start) <= DayNumber(a["endDate"])))
                    => a \in Range(tresult)

\* the date of an actual is present and a calendar date
HasParsableDate(a) == "date" \in DOMAIN a /\ IsCalendarDate(a["date"])

\* the date filter of the actuals tools, as C13 states it
PassesPoint(a) ==
    /\ HasParsableDate(a)
    /\ QueryHasStart => DayNumber(targs.start) <= DayNumber(a["date"])
    /\ QueryHasEnd => DayNumber(a["date"]) <= DayNumber(targs.end)

\* C13 as stated: under a query with at least one bound, an actual that is the
\* tool's to return is returned iff its date is present, parsable and within the
\* inclusive bounds given; an actual whose date is missing or not parsable is not
\* returned and does not make the query fail.
C13_BadDatesNeverMatchNeverFail ==
    (tool \in ActualTools /\ (QueryHasStart \/ QueryHasEnd)) =>
        /\ ~(tpc = "failed" /\ terror = "InvalidArgument")
        /\ tpc = "done" =>
            \A i \in 1..Len(titems) :
                OwnerOk(titems[i]) => (titems[i] \in Range(tresult) <=> PassesPoint(titems[i]))

\* the method is GET, in any letter case
IsGet(method) == method \in {"GET", "get", "Get"}

\* the method as sent: the same word, in capitals
SameMethod(sent, given) ==
    \/ sent = given
    \/ <<given, sent>> \in {<<"get", "GET">>, <<"post", "POST">>}

\* C14 as stated: runn_request with paginate=True and a method that is not GET fails
\* with InvalidArgument and issues no request; with paginate=False it issues exactly
\* one request, with the given method, params and body.
C14_OneRequestWithoutPaginate ==
    (tool = "runn_request" /\ tpc # "called") =>
        /\ (targs.paginate /\ ~IsGet(targs.method)) =>
            /\ tpc = "failed"
            /\ terror = "InvalidArgument"
            /\ wire = <<>>
        /\ ~targs.paginate =>
            /\ Len(wire) = 1
            /\ SameMethod(wire[1].method, targs.method)
            /\ wire[1].params = targs.params
            /\ wire[1].json = targs.json_body

\* C14 (amended): runn_request with paginate=True and a method that is not GET fails
\* with InvalidArgument and issues no request; with paginate=True and GET it is
\* refused for an absolute path only, and when it returns, it returns the values of
\* all the pages of the path, drained to the first page without a cursor, in order;
\* with paginate=False and a path that is not an absolute URL it issues exactly one
\* request, with the given method, params and body, and with an absolute URL none.
C14_PaginateOnlyWithGet ==
    (tool = "runn_request" /\ tpc # "called") =>
        /\ (targs.paginate /\ ~IsGet(targs.method)) =>
            /\ tpc = "failed"
            /\ terror = "InvalidArgument"
            /\ wire = <<>>
        /\ (targs.paginate /\ IsGet(targs.method)) =>
            /\ (tpc = "failed" /\ wire = <<>>) => IsAbsoluteUrl(targs.path)
            /\ \A k \in 1..Len(wire) : wire[k].method = "GET"
            /\ tpc = "done" =>
                /\ tresult = AllValues(responses)
                /\ Len(wire) = Len(responses)
                /\ \A k \in 1..(Len(responses) - 1) : HasCursor(responses[k])
                /\ ~HasCursor(responses[Len(responses)])
        /\ (~targs.paginate /\ ~IsAbsoluteUrl(targs.path)) =>
            /\ Len(wire) = 1
            /\ SameMethod(wire[1].method, targs.method)
            /\ wire[1].params = targs.params
            /\ wire[1].json = targs.json_body
        /\ (~targs.paginate /\ IsAbsoluteUrl(targs.path)) =>
            /\ wire = <<>>
            /\ tpc = "failed"
            /\ terror = "InvalidArgument"

\* paginate=True with the method spelled "get": two pages drained
C14_Witness ==
    /\ tool = "runn_request"
    /\ targs.paginate
    /\ targs.method = "get"
    /\ tpc = "done"
    /\ Len(wire) = 2
    /\ tresult = <<"b", "a">>

\* the requests of a team tool that scan /people
IsPeopleRequest(r) == r.url = BaseUrl \o <<"/", "p", "e", "o", "p", "l", "e">>

\* the other filters of a team tool: active_only and the date window
OtherFiltersOk(a) ==
    IF tool = "list_assignments_by_team"
    THEN ActiveOk(a) /\ PassesInterval(a)
    ELSE (QueryHasStart \/ QueryHasEnd) => PassesPoint(a)

\* the subsequence of the records that the team tool is to return
RECURSIVE TeamRecords(_)
TeamRecords(rs) ==
    IF rs = <<>> THEN <<>>
    ELSE (IF OwnerOk(Head(rs)) /\ OtherFiltersOk(Head(rs)) THEN <<Head(rs)>> ELSE <<>>)
         \o TeamRecords(Tail(rs))

\* C15: a team tool scans /people first and requests its target collection only once
\* that scan is drained; it returns exactly the target records, in upstream order,
\* whose personId is the id of a person of the team (archived people counting only
\* with include_archived) and that pass the other filters; a record with no personId
\* is never returned.
C15_TeamScanThenFilterByMembers ==
    tool \in TeamTools =>
        /\ \A i, j \in 1..Len(wire) : (i < j /\ IsPeopleRequest(wire[j])) => IsPeopleRequest(wire[i])
        /\ \A j \in 1..Len(wire) :
            ~IsPeopleRequest(wire[j]) =>
                /\ tpc # "people"
                /\ IsPeopleRequest(wire[1])
                /\ IsPeopleRequest(wire[j - 1]) => "cursor" \notin DOMAIN wire[j].params
        /\ tpc = "people" => \A j \in 1..Len(wire) : IsPeopleRequest(wire[j])
        /\ tpc = "done" =>
            /\ tresult = TeamRecords(titems)
            /\ \A i \in 1..Len(tresult) : "personId" \in DOMAIN tresult[i]

\* person 1 is the team: its two assignments, the first with no isActive, come back
\* in the order the upstream gave them, after one /people page and two target pages
\* or two /people pages and one target page
C15_Witness ==
    /\ tool = "list_assignments_by_team"
    /\ tpc = "done"
    /\ ~targs.include_archived /\ ~targs.active_only
    /\ Len(wire) = 3
    /\ tpeople = << ("id" :> 1) @@ ("teamId" :> 7) >>
    /\ Len(titems) = 2
    /\ titems[1] = ("personId" :> 1) @@ ("startDate" :> Jan10) @@ ("endDate" :> Jan20)
    /\ "isActive" \in DOMAIN titems[2] /\ "personId" \in DOMAIN titems[2]
    /\ titems[2]["personId"] = 1
    /\ tresult = titems

\* the level of a skill entry parses as an integer, and that integer
LevelParses(e) ==
    /\ "level" \in DOMAIN e
    /\ \/ e["level"].type = "int"
       \/ e["level"].type = "str" /\ e["level"].s \in {"1", "2", "3"}
LevelValue(e) ==
    IF e["level"].type = "int" THEN e["level"].n
    ELSE CASE e["level"].s = "1" -> 1 [] e["level"].s = "2" -> 2 [] OTHER -> 3

\* the person has the skill, as C16 states it
HasSkillEntry(person) ==
    /\ "skills" \in DOMAIN person
    /\ \E k \in 1..Len(person["skills"]) :
        LET e == person["skills"][k] IN
        /\ "id" \in DOMAIN e
        /\ e["id"] = targs.id
        /\ targs.min_level # {} =>
            (LevelParses(e) /\ \A ml \in targs.min_level : LevelValue(e) >= ml)

\* C16: list_people_by_skill never fails on a level; it returns a non-archived person
\* iff some entry of their skills has the skill id and, when min_level is given, a
\* level that parses as an integer >= min_level, whatever the entries before it; an
\* archived person is returned under the same condition with include_archived only.
C16_SkillLevelParsedOrSkipped ==
    tool = "list_people_by_skill" =>
        /\ ~(tpc = "failed" /\ terror = "InvalidArgument")
        /\ tpc = "done" =>
            \A i \in 1..Len(titems) :
                LET person == titems[i]
                    archived == "isArchived" \in DOMAIN person /\ person["isArchived"] = TRUE
                IN  person \in Range(tresult) <=>
                        (HasSkillEntry(person) /\ (~archived \/ targs.include_archived))

\* min_level 2: person 2 has the skill at level "x" and then at level "2"; person 4
\* has it with no level
C16_Witness ==
    /\ tool = "list_people_by_skill"
    /\ tpc = "done"
    /\ targs.min_level = {2}
    /\ Len(titems) = 2
    /\ titems[1]["id"] = 4
    /\ titems[2]["id"] = 2
    /\ Len(tresult) = 1
    /\ tresult[1]["id"] = 2

====
